---- MODULE Spec2Model ----
(***************************************************************************)
(* Model of calculate_sales_metrics (src/sales_metrics.py).                *)
(*                                                                         *)
(* A Decimal is the record [c |-> coefficient, e |-> fractional digits],   *)
(* i.e. the number c * 10^-e, with Python's rules for the exponent of a    *)
(* sum and of a product.  The model's magnitudes stay far below the 28     *)
(* significant digits of the default decimal context, so no arithmetic     *)
(* result is rounded by the context.                                       *)
(*                                                                         *)
(* The three arguments are read lazily: the product and discount rows are  *)
(* drawn at the call (Init), each order's "items" when line 104 reads it   *)
(* and its "discount" when line 109 reads it; the variable order holds the *)
(* fields of the current order that the last step read.  products_data and *)
(* discounts_data are not read after line 89 and leave the model state     *)
(* when the counters are initialised.  The locals of the loop body are     *)
(* rebound before they are read, and the model resets them when the body   *)
(* ends.                                                                   *)
(***************************************************************************)
EXTENDS Integers, Sequences, FiniteSets, TLC

\* ------------------------------------------------------------ bounds ----
MaxRows   == 2      \* rows in products_data and in discounts_data
MaxOrders == 2      \* len(orders_data)
MaxItems  == 2      \* items of one order
MaxStrLen == 3      \* characters of one discount string

\* ---------------------------------------------------- Decimal values ----
Dec(c, e) == [c |-> c, e |-> e]

RECURSIVE Pow10(_)
Pow10(n) == IF n = 0 THEN 1 ELSE 10 * Pow10(n - 1)

Max2(a, b) == IF a >= b THEN a ELSE b

Abs(n) == IF n < 0 THEN -n ELSE n

RECURSIVE GCD(_, _)
GCD(a, b) == IF b = 0 THEN a ELSE GCD(b, a % b)

\* coefficient of a at e fractional digits (e >= a.e)
Coef(a, e) == a.c * Pow10(e - a.e)

DecAdd(a, b) == LET e == Max2(a.e, b.e) IN Dec(Coef(a, e) + Coef(b, e), e)

DecSub(a, b) == LET e == Max2(a.e, b.e) IN Dec(Coef(a, e) - Coef(b, e), e)

DecMul(a, b) == Dec(a.c * b.c, a.e + b.e)

\* Decimal comparison is numeric: the exponents do not matter
DecGt(a, b) == LET e == Max2(a.e, b.e) IN Coef(a, e) > Coef(b, e)

DECIMAL_PLACES == 2

HUNDRED == Dec(100, 0)

ZERO == Dec(0, 0)

\* n / m rounded to the nearest integer, ties to the even one (the default
\* rounding of the decimal context, used by quantize)
RoundHalfEven(n, m) ==
    LET a  == Abs(n)
        q  == a \div m
        r  == a % m
        up == (2 * r > m) \/ (2 * r = m /\ q % 2 = 1)
        g  == IF up THEN q + 1 ELSE q
    IN  IF n < 0 THEN -g ELSE g

\* A textual numeric field: [valid |-> FALSE, ...] is a text Decimal()
\* rejects ("invalid"), otherwise the text denotes c * 10^-e.
Txt(c, e) == [valid |-> TRUE, c |-> c, e |-> e]

BadTxt == [valid |-> FALSE, c |-> 0, e |-> 0]

\* to_decimal on a text Decimal() accepts
to_decimal(v) ==
    IF v.e <= DECIMAL_PLACES
    THEN Dec(v.c * Pow10(DECIMAL_PLACES - v.e), DECIMAL_PLACES)
    ELSE Dec(RoundHalfEven(v.c, Pow10(v.e - DECIMAL_PLACES)), DECIMAL_PLACES)

\* ------------------------------------------------------------ inputs ----
\* the skus of the order items; only P1 ever has a product row
Skus == {"P1", "NX"}

\* "10.00", "10.005", "0.00" and a non-numeric text
ProductRows ==
    [sku : {"P1"}, price : {Txt(1000, 2), Txt(10005, 3), Txt(0, 2), BadTxt}]

QuantityTexts == {Txt(1, 0), Txt(2, 0), BadTxt}

\* the characters of a discount string; only the code A ever has a row
Chars == {"A", "X", ",", " "}

\* "0.10", "0.004", "-0.10" and a non-numeric text
DiscountRows ==
    [key : {<<"A">>},
     value : {Txt(10, 2), Txt(4, 3), Txt(-10, 2), BadTxt}]

SeqsUpTo(S, n) == UNION {[1..k -> S] : k \in 0..n}

\* an item dict, possibly lacking "sku" or "quantity"
Items == [sku : Skus, quantity : QuantityTexts]
         \cup [sku : Skus] \cup [quantity : {Txt(1, 0)}]

\* order.get("discount") when the order has no "discount"
None == <<"None">>

\* ------------------------------------------------------------- state ----
VARIABLES pc, products_data, discounts_data, products, discounts,
          total_before, total_after, total_discount, orders_with_discount,
          total_orders, idx, order, order_total, discount_amount,
          warning_logged, metrics, error

vars == <<pc, products_data, discounts_data, products, discounts,
          total_before, total_after, total_discount, orders_with_discount,
          total_orders, idx, order, order_total, discount_amount,
          warning_logged, metrics, error>>

NoMetrics == [returned |-> FALSE]

NoOrder == [orderId |-> 0]

\* ----------------------------------------------------- lookup tables ----
\* a dict that keeps the first value of a key
Put_KeepFirst(t, k, v) ==
    [x \in DOMAIN t \cup {k} |-> IF x \in DOMAIN t THEN t[x] ELSE v]

\* d[k] = v of a dict
Put(t, k, v) == [x \in DOMAIN t \cup {k} |-> IF x = k THEN v ELSE t[x]]

Front(s) == SubSeq(s, 1, Len(s) - 1)

RECURSIVE BuildProducts(_)
BuildProducts(rows) ==
    IF rows = <<>> THEN <<>>
    ELSE LET p == rows[Len(rows)]
         IN  Put(BuildProducts(Front(rows)), p.sku, to_decimal(p.price))

RECURSIVE BuildDiscounts(_)
BuildDiscounts(rows) ==
    IF rows = <<>> THEN <<>>
    ELSE LET d == rows[Len(rows)]
         IN  Put(BuildDiscounts(Front(rows)), d.key, to_decimal(d.value))

\* -------------------------------------------------------- order total ----
\* what evaluating products[item["sku"]] * to_decimal(item["quantity"])
\* raises, left operand first
ItemFailure(item, prods) ==
    IF "sku" \notin DOMAIN item THEN "KeyError"
    ELSE IF item.sku \notin DOMAIN prods THEN "KeyError"
    ELSE IF "quantity" \notin DOMAIN item THEN "KeyError"
    ELSE IF ~item.quantity.valid THEN "InvalidValue"
    ELSE "ok"

RECURSIVE FirstFailure(_, _)
FirstFailure(its, prods) ==
    IF its = <<>> THEN "ok"
    ELSE LET f == ItemFailure(Head(its), prods)
         IN  IF f # "ok" THEN f ELSE FirstFailure(Tail(its), prods)

\* sum(...) over the items, starting from the int 0
RECURSIVE OrderTotalOf(_, _)
OrderTotalOf(its, prods) ==
    IF its = <<>> THEN ZERO
    ELSE LET it == its[Len(its)]
         IN  DecAdd(OrderTotalOf(Front(its), prods),
                    DecMul(prods[it.sku], to_decimal(it.quantity)))

\* ---------------------------------------------------------- discounts ----
\* s.split(",")
RECURSIVE Split(_)
Split(s) ==
    IF \A i \in 1..Len(s) : s[i] # "," THEN <<s>>
    ELSE LET i == CHOOSE j \in 1..Len(s) :
                      s[j] = "," /\ \A k \in 1..(j - 1) : s[k] # ","
         IN  <<SubSeq(s, 1, i - 1)>> \o Split(SubSeq(s, i + 1, Len(s)))

\* s.strip()
RECURSIVE Strip(_)
Strip(s) ==
    IF s = <<>> THEN s
    ELSE IF Head(s) = " " THEN Strip(Tail(s))
    ELSE IF s[Len(s)] = " " THEN Strip(Front(s))
    ELSE s

Codes(discount_codes) ==
    LET parts == Split(discount_codes)
    IN  [i \in 1..Len(parts) |-> Strip(parts[i])]

\* the best single code instead of the sum of the codes
RECURSIVE TotalDiscountPercentage_Best(_, _)
TotalDiscountPercentage_Best(codes, discs) ==
    IF codes = <<>> THEN ZERO
    ELSE LET code == codes[Len(codes)]
             rest == TotalDiscountPercentage_Best(Front(codes), discs)
         IN  IF code \in DOMAIN discs /\ DecGt(discs[code], rest)
             THEN discs[code] ELSE rest

\* sum(discounts[code] for code in codes if code in discounts)
RECURSIVE TotalDiscountPercentage(_, _)
TotalDiscountPercentage(codes, discs) ==
    IF codes = <<>> THEN ZERO
    ELSE LET code == codes[Len(codes)]
             rest == TotalDiscountPercentage(Front(codes), discs)
         IN  IF code \in DOMAIN discs THEN DecAdd(rest, discs[code]) ELSE rest


\* "is not None" instead of the truth value
Truthy_NotNone(discount_codes) == discount_codes # None

\* truth value of the walrus expression on line 109
Truthy(discount_codes) == discount_codes # None /\ discount_codes # <<>>

\* >= instead of > on line 116
Applies_NonNegative(pct) == ~DecGt(ZERO, pct)

\* line 116
Applies(pct) == DecGt(pct, ZERO)

\* lines 108-117
DiscountAmount(discount_codes, total, discs) ==
    IF Truthy(discount_codes)
    THEN LET pct == TotalDiscountPercentage(Codes(discount_codes), discs)
         IN  IF Applies(pct) THEN DecMul(total, pct) ELSE ZERO
    ELSE ZERO

\* counted only when every code of the order is in the table
Counted_AllKnown(discount_codes, discs) ==
    /\ Truthy(discount_codes)
    /\ \A i \in 1..Len(Codes(discount_codes)) :
           Codes(discount_codes)[i] \in DOMAIN discs
    /\ Applies(TotalDiscountPercentage(Codes(discount_codes), discs))

\* counted as soon as the order carries a discount string
Counted_AnyText(discount_codes, discs) == Truthy(discount_codes)

\* lines 109-118
Counted(discount_codes, discs) ==
    Truthy(discount_codes)
    /\ Applies(TotalDiscountPercentage(Codes(discount_codes), discs))

\* lines 109-120
Warned(discount_codes, discs) ==
    Truthy(discount_codes)
    /\ ~Applies(TotalDiscountPercentage(Codes(discount_codes), discs))

\* line 125 adding the order total without the discount
FoldAfter_Gross(after, total, amount) == DecAdd(after, total)

\* line 125
FoldAfter(after, total, amount) == DecAdd(after, DecSub(total, amount))

\* -------------------------------------------------------------- average ----
\* The quotient of two Decimals as the fraction n/d in lowest terms.
Ratio(n, d) == LET g == GCD(Abs(n), Abs(d)) IN [n |-> n \div g, d |-> d \div g]

\* the discount relative to the total after discount
AverageDiscount_OfAfter(disc, before, withDiscount) ==
    IF DecGt(before, ZERO) /\ withDiscount > 0
    THEN LET e == Max2(disc.e, before.e)
             q == Ratio(Coef(disc, e), Coef(before, e) - Coef(disc, e))
         IN  Ratio(q.n * HUNDRED.c, q.d)
    ELSE [n |-> 0, d |-> 1]

\* lines 132-136: (total_discount / total_before) * HUNDRED, or ZERO
AverageDiscount(disc, before, withDiscount) ==
    IF DecGt(before, ZERO) /\ withDiscount > 0
    THEN LET e == Max2(disc.e, before.e)
             q == Ratio(Coef(disc, e), Coef(before, e))
         IN  Ratio(q.n * HUNDRED.c, q.d)
    ELSE [n |-> 0, d |-> 1]

\* ------------------------------------------------------------- actions ----
Init ==
    /\ pc = "start"
    /\ products_data \in SeqsUpTo(ProductRows, MaxRows)
    /\ discounts_data \in SeqsUpTo(DiscountRows, MaxRows)
    /\ products = <<>>
    /\ discounts = <<>>
    /\ total_before = ZERO
    /\ total_after = ZERO
    /\ total_discount = ZERO
    /\ orders_with_discount = 0
    /\ total_orders = 0
    /\ idx = 0
    /\ order = NoOrder
    /\ order_total = ZERO
    /\ discount_amount = ZERO
    /\ warning_logged = FALSE
    /\ metrics = NoMetrics
    /\ error = "none"

AllValid(rows, field) == \A i \in 1..Len(rows) : rows[i][field].valid

\* lines 82-89
BuildTables ==
    /\ pc = "start"
    /\ AllValid(products_data, "price")
    /\ AllValid(discounts_data, "value")
    /\ products' = BuildProducts(products_data)
    /\ discounts' = BuildDiscounts(discounts_data)
    /\ pc' = "counters"
    /\ UNCHANGED <<products_data, discounts_data, total_before, total_after,
                   total_discount, orders_with_discount, total_orders, idx,
                   order, order_total, discount_amount, warning_logged, metrics,
                   error>>

\* lines 82-89 when to_decimal raises (lines 68-70), then lines 150-152
BuildTablesFails ==
    /\ pc = "start"
    /\ ~(AllValid(products_data, "price") /\ AllValid(discounts_data, "value"))
    /\ pc' = "failed"
    /\ error' = "InvalidValue"
    /\ UNCHANGED <<products_data, discounts_data, products, discounts,
                   total_before, total_after, total_discount,
                   orders_with_discount, total_orders, idx, order,
                   order_total, discount_amount, warning_logged, metrics>>

\* lines 91-96
InitCounters ==
    /\ pc = "counters"
    /\ total_before' = ZERO
    /\ total_after' = ZERO
    /\ total_discount' = ZERO
    /\ orders_with_discount' = 0
    /\ total_orders' \in 0..MaxOrders
    /\ idx' = 0
    /\ products_data' = <<>>
    /\ discounts_data' = <<>>
    /\ pc' = "for"
    /\ UNCHANGED <<products, discounts, order, order_total, discount_amount,
                   warning_logged, metrics, error>>

\* lines 99-105: the next order of orders_data and its total
OrderTotal ==
    /\ pc = "for"
    /\ idx < total_orders
    /\ \E its \in SeqsUpTo(Items, MaxItems) :
          /\ FirstFailure(its, products) = "ok"
          /\ order' = [orderId |-> idx + 1, items |-> its]
          /\ order_total' = OrderTotalOf(its, products)
    /\ pc' = "summed"
    /\ UNCHANGED <<products_data, discounts_data, products, discounts,
                   total_before, total_after, total_discount,
                   orders_with_discount, total_orders, idx, discount_amount,
                   warning_logged, metrics, error>>

\* line 108
InitDiscount ==
    /\ pc = "summed"
    /\ discount_amount' = ZERO
    /\ order' = [orderId |-> order.orderId]
    /\ pc' = "discount"
    /\ UNCHANGED <<products_data, discounts_data, products, discounts,
                   total_before, total_after, total_discount,
                   orders_with_discount, total_orders, idx, order_total,
                   warning_logged, metrics, error>>

\* the KeyError logged and the order skipped instead of lines 129, 150-152
OrderKeyError_Skip ==
    /\ pc = "for"
    /\ idx < total_orders
    /\ \/ order' = [orderId |-> idx + 1]
       \/ \E its \in SeqsUpTo(Items, MaxItems) :
             /\ FirstFailure(its, products) = "KeyError"
             /\ order' = [orderId |-> idx + 1, items |-> its]
    /\ idx' = idx + 1
    /\ UNCHANGED <<pc, products_data, discounts_data, products, discounts,
                   total_before, total_after, total_discount,
                   orders_with_discount, total_orders, order_total,
                   discount_amount, warning_logged, metrics, error>>

\* lines 102-105 raising KeyError, then lines 127-129 and 150-152
OrderKeyError ==
    /\ pc = "for"
    /\ idx < total_orders
    /\ \/ order' = [orderId |-> idx + 1]
       \/ \E its \in SeqsUpTo(Items, MaxItems) :
             /\ FirstFailure(its, products) = "KeyError"
             /\ order' = [orderId |-> idx + 1, items |-> its]
    /\ pc' = "failed"
    /\ error' = "InvalidOrderData"
    /\ UNCHANGED <<products_data, discounts_data, products, discounts,
                   total_before, total_after, total_discount,
                   orders_with_discount, total_orders, idx, order_total,
                   discount_amount, warning_logged, metrics>>

\* lines 102-105 when to_decimal raises (lines 68-70), then lines 150-152
QuantityInvalid ==
    /\ pc = "for"
    /\ idx < total_orders
    /\ \E its \in SeqsUpTo(Items, MaxItems) :
          /\ FirstFailure(its, products) = "InvalidValue"
          /\ order' = [orderId |-> idx + 1, items |-> its]
    /\ pc' = "failed"
    /\ error' = "InvalidValue"
    /\ UNCHANGED <<products_data, discounts_data, products, discounts,
                   total_before, total_after, total_discount,
                   orders_with_discount, total_orders, idx, order_total,
                   discount_amount, warning_logged, metrics>>

\* lines 109-120: the order's discount
ResolveDiscount ==
    /\ pc = "discount"
    /\ \E d \in {None} \cup SeqsUpTo(Chars, MaxStrLen) :
          /\ order' = IF d = None THEN [orderId |-> order.orderId]
                      ELSE [orderId |-> order.orderId, discount |-> d]
          /\ discount_amount' = DiscountAmount(d, order_total, discounts)
          /\ orders_with_discount' =
                IF Counted(d, discounts) THEN orders_with_discount + 1
                ELSE orders_with_discount
          /\ warning_logged' = Warned(d, discounts)
    /\ pc' = "update"
    /\ UNCHANGED <<products_data, discounts_data, products, discounts,
                   total_before, total_after, total_discount, total_orders,
                   idx, order_total, metrics, error>>

\* lines 122-125, and back to line 99
UpdateTotals ==
    /\ pc = "update"
    /\ total_before' = DecAdd(total_before, order_total)
    /\ total_discount' = DecAdd(total_discount, discount_amount)
    /\ total_after' = FoldAfter(total_after, order_total, discount_amount)
    /\ idx' = idx + 1
    /\ order' = NoOrder
    /\ order_total' = ZERO
    /\ discount_amount' = ZERO
    /\ warning_logged' = FALSE
    /\ pc' = "for"
    /\ UNCHANGED <<products_data, discounts_data, products, discounts,
                   orders_with_discount, total_orders, metrics, error>>

\* lines 131-148
Finalize ==
    /\ pc = "for"
    /\ idx = total_orders
    /\ metrics' = [returned |-> TRUE,
                   total_before_discount |-> total_before,
                   total_after_discount |-> total_after,
                   total_discount_amount |-> total_discount,
                   orders_with_discount |-> orders_with_discount,
                   total_orders |-> total_orders,
                   average_discount_percentage |->
                       AverageDiscount(total_discount, total_before,
                                       orders_with_discount)]
    /\ pc' = "done"
    /\ UNCHANGED <<products_data, discounts_data, products, discounts,
                   total_before, total_after, total_discount,
                   orders_with_discount, total_orders, idx, order,
                   order_total, discount_amount, warning_logged, error>>

Next ==
    \/ BuildTables
    \/ BuildTablesFails
    \/ InitCounters
    \/ OrderTotal
    \/ InitDiscount
    \/ OrderKeyError
    \/ QuantityInvalid
    \/ ResolveDiscount
    \/ UpdateTotals
    \/ Finalize

Spec == Init /\ [][Next]_vars

\* ================================================================ claims ====
\* The value of a Decimal in millionths (every Decimal of the model has at
\* most 6 fractional digits: price, quantity and percentage have 2 each).
Micro(x) == x.c * Pow10(6 - x.e)

\* The discount string of an order, read off the text itself: a code is a
\* maximal comma-free stretch of the text, without the blanks around it.
HasDiscountText(o) == "discount" \in DOMAIN o /\ o.discount # <<>>

Starts(s) == {i \in 1..(Len(s) + 1) : i = 1 \/ s[i - 1] = ","}

SegEnd(s, i) ==
    CHOOSE j \in i..(Len(s) + 1) :
        /\ j = Len(s) + 1 \/ s[j] = ","
        /\ \A m \in i..(j - 1) : s[m] # ","

Seg(s, i) == SubSeq(s, i, SegEnd(s, i) - 1)

TrimsTo(seg, k) ==
    \E a \in 0..Len(seg) :
        /\ a + Len(k) <= Len(seg)
        /\ \A m \in 1..a : seg[m] = " "
        /\ SubSeq(seg, a + 1, a + Len(k)) = k
        /\ \A m \in (a + Len(k) + 1)..Len(seg) : seg[m] = " "

Occurrences(s, k) == Cardinality({i \in Starts(s) : TrimsTo(Seg(s, i), k)})

KnownAt(s, i, discs) == \E k \in DOMAIN discs : TrimsTo(Seg(s, i), k)

KnownCodes(s, discs) == Cardinality({i \in Starts(s) : KnownAt(s, i, discs)})

UnknownCodes(s, discs) ==
    Cardinality({i \in Starts(s) : ~KnownAt(s, i, discs)})

\* the plain sum, in hundredths, of the table percentage of every occurrence
\* of a known code in s
RECURSIVE PlainSumOver(_, _, _)
PlainSumOver(K, s, discs) ==
    IF K = {} THEN 0
    ELSE LET k == CHOOSE x \in K : TRUE
         IN  Occurrences(s, k) * Coef(discs[k], 2)
             + PlainSumOver(K \ {k}, s, discs)

PlainSum(s, discs) == PlainSumOver(DOMAIN discs, s, discs)

OrderPct(o, discs) ==
    IF HasDiscountText(o) THEN PlainSum(o.discount, discs) ELSE 0

C2_Original ==
    (pc = "update" /\ HasDiscountText(order)) =>
        Micro(discount_amount) =
            Coef(order_total, 4) * PlainSum(order.discount, discounts)

\* C2 amended: the discount amount is orderTotal times the plain sum of the
\* percentages of the known codes (one term per occurrence, never
\* compounded) when that sum is greater than 0, and 0 when the sum is 0 or
\* negative.
C2_AdditiveStacking ==
    (pc = "update" /\ HasDiscountText(order)) =>
        Micro(discount_amount) =
            IF PlainSum(order.discount, discounts) > 0
            THEN Coef(order_total, 4) * PlainSum(order.discount, discounts)
            ELSE 0

\* two 10% codes on an order of 40.00 give 8.00 (20%), not 7.60 (19%)
C2_Witness ==
    /\ pc = "update"
    /\ HasDiscountText(order)
    /\ order.discount = <<"A", ",", "A">>
    /\ DOMAIN discounts = {<<"A">>}
    /\ Coef(discounts[<<"A">>], 2) = 10
    /\ Micro(order_total) = 40000000
    /\ Micro(discount_amount) = 8000000

\* ---- C3 ----
\* an item the sum on lines 102-105 cannot price: no sku, a sku that is not
\* in the product table, or no quantity
BadItem(it, prods) ==
    \/ "sku" \notin DOMAIN it
    \/ it.sku \notin DOMAIN prods
    \/ "quantity" \notin DOMAIN it

BadOrder(o, prods) ==
    \/ "items" \notin DOMAIN o
    \/ \E i \in 1..Len(o.items) : BadItem(o.items[i], prods)

\* C3: an order, at any position, with an item whose sku is not in the
\* product table (or without items, sku or quantity) ends the run with an
\* error: no metrics are returned then or later, and no further order is
\* processed.
C3_BadOrderAborts ==
    [][/\ (pc = "for" /\ order'.orderId = idx + 1
           /\ BadOrder(order', products)) => pc' = "failed"
       /\ pc' = "failed" => ~metrics'.returned
       /\ pc = "failed" => (pc' = "failed" /\ idx' = idx)]_vars

\* the second order fails on its second item after a first order was folded
C3_Witness ==
    /\ pc = "failed"
    /\ error = "InvalidOrderData"
    /\ idx = 1
    /\ Micro(total_before) > 0
    /\ "items" \in DOMAIN order
    /\ Len(order.items) = 2
    /\ ~BadItem(order.items[1], products)
    /\ "sku" \in DOMAIN order.items[2]
    /\ order.items[2].sku \notin DOMAIN products
    /\ ~metrics.returned

\* ---- C4 ----
\* a discount string of two codes, one in the table and one not
OnePresentOneAbsent(o, discs) ==
    /\ HasDiscountText(o)
    /\ Cardinality(Starts(o.discount)) = 2
    /\ KnownCodes(o.discount, discs) = 1

\* C4 as stated: such an order gets orderTotal times the present code's
\* percentage and increments orders_with_discount, for every table.
C4_Original ==
    [][(pc = "discount" /\ pc' = "update"
        /\ OnePresentOneAbsent(order', discounts)) =>
          /\ Micro(discount_amount') =
                Coef(order_total, 4) * PlainSum(order'.discount, discounts)
          /\ orders_with_discount' = orders_with_discount + 1]_vars

\* C4 amended: such an order gets orderTotal times the present code's
\* percentage and increments orders_with_discount by one when that
\* percentage is greater than 0; when it is 0 or negative the discount
\* amount is 0 and orders_with_discount is not incremented.
C4_ValidAndInvalidCode ==
    [][(pc = "discount" /\ pc' = "update"
        /\ OnePresentOneAbsent(order', discounts)) =>
          IF PlainSum(order'.discount, discounts) > 0
          THEN /\ Micro(discount_amount') =
                     Coef(order_total, 4)
                     * PlainSum(order'.discount, discounts)
               /\ orders_with_discount' = orders_with_discount + 1
          ELSE /\ Micro(discount_amount') = 0
               /\ orders_with_discount' = orders_with_discount]_vars

C4_Witness ==
    /\ pc = "update"
    /\ OnePresentOneAbsent(order, discounts)
    /\ order.discount = <<"X", ",", "A">>
    /\ DOMAIN discounts = {<<"A">>}
    /\ Micro(order_total) = 10000000
    /\ Micro(discount_amount) = 1000000
    /\ orders_with_discount = idx + 1

\* ---- C5 ----
OnlyAbsent(o, discs) ==
    HasDiscountText(o) /\ KnownCodes(o.discount, discs) = 0

\* C5: an order whose discount string holds only codes that are not in the
\* table does not fail the run, gets a discount of 0, does not increment
\* orders_with_discount and adds its full orderTotal to total_before and to
\* total_after and nothing to total_discount.
C5_OnlyInvalidCodes ==
    [][/\ (pc = "discount" /\ pc' = "update"
           /\ OnlyAbsent(order', discounts)) =>
             /\ Micro(discount_amount') = 0
             /\ orders_with_discount' = orders_with_discount
       /\ (pc = "update" /\ OnlyAbsent(order, discounts)) =>
             /\ pc' = "for"
             /\ Micro(total_before') =
                    Micro(total_before) + Micro(order_total)
             /\ Micro(total_after') =
                    Micro(total_after) + Micro(order_total)
             /\ Micro(total_discount') = Micro(total_discount)
             /\ orders_with_discount' = orders_with_discount]_vars

C5_Witness ==
    /\ pc = "update"
    /\ OnlyAbsent(order, discounts)
    /\ order.discount = <<"X", ",", "X">>
    /\ DOMAIN discounts = {<<"A">>}
    /\ Micro(order_total) > 0
    /\ Micro(discount_amount) = 0
    /\ orders_with_discount = 0
    /\ warning_logged

\* ---- C6 ----
\* C6: an order without a discount field, or with the empty string, gets a
\* discount of 0, does not increment orders_with_discount and logs no
\* warning.
C6_NoDiscountField ==
    [][(pc = "discount" /\ pc' = "update" /\ ~HasDiscountText(order')) =>
          /\ Micro(discount_amount') = 0
          /\ orders_with_discount' = orders_with_discount
          /\ ~warning_logged']_vars

C6_Witness ==
    /\ pc = "update"
    /\ "discount" \in DOMAIN order
    /\ order.discount = <<>>
    /\ DOMAIN discounts # {}
    /\ Micro(order_total) > 0
    /\ ~warning_logged

\* ---- C7 ----
\* C7: every code of an order that is not in the discount table is logged
\* as a warning, also when the order carries a known code with a positive
\* percentage.
C7_UnknownCodeWarned ==
    (pc = "update" /\ HasDiscountText(order)
     /\ UnknownCodes(order.discount, discounts) > 0) => warning_logged

\* ---- C8 ----
\* C8: the returned average_discount_percentage is
\* (total_discount_amount / total_before_discount) * 100 when
\* total_before_discount > 0 and orders_with_discount > 0, and 0 otherwise.
C8_BlendedAverage ==
    metrics.returned =>
        LET b == Micro(metrics.total_before_discount)
            d == Micro(metrics.total_discount_amount)
            a == metrics.average_discount_percentage
            g == GCD(Abs(b), Abs(d))
        IN  IF b > 0 /\ metrics.orders_with_discount > 0
            THEN a.d > 0 /\ a.n * (b \div g) = 100 * (d \div g) * a.d
            ELSE a.n = 0

\* an order of 40.00 at 20% and an undiscounted order of 10.00 give 16
C8_Witness ==
    /\ metrics.returned
    /\ metrics.total_orders = 2
    /\ metrics.orders_with_discount = 1
    /\ Micro(metrics.total_before_discount) = 50000000
    /\ Micro(metrics.total_discount_amount) = 8000000
    /\ metrics.average_discount_percentage = [n |-> 16, d |-> 1]

\* ---- C9 ----
LastRow(rows, field, k) ==
    CHOOSE i \in 1..Len(rows) :
        rows[i][field] = k /\ \A j \in (i + 1)..Len(rows) : rows[j][field] # k

LastWins(table, rows, field, val) ==
    /\ DOMAIN table = {rows[i][field] : i \in 1..Len(rows)}
    /\ \A k \in DOMAIN table :
          LET v == rows[LastRow(rows, field, k)][val]
          IN  Micro(table[k]) = Micro(to_decimal(v))

\* the sum of price times quantity over the items, in ten-thousandths
RECURSIVE PriceSum(_, _)
PriceSum(its, prods) ==
    IF its = <<>> THEN 0
    ELSE Coef(prods[Head(its).sku], 2) * Coef(Head(its).quantity, 2)
         + PriceSum(Tail(its), prods)

\* C9: with several rows of one sku in products_data, or of one key in
\* discounts_data, the table holds the value of the last such row; the
\* tables do not change afterwards, and every order is priced with the
\* table's prices.
C9_LastRowWins ==
    /\ [](pc = "counters" =>
             /\ LastWins(products, products_data, "sku", "price")
             /\ LastWins(discounts, discounts_data, "key", "value"))
    /\ [](pc = "summed" =>
             Coef(order_total, 4) = PriceSum(order.items, products))
    /\ [][pc # "start" =>
             (products' = products /\ discounts' = discounts)]_vars

C9_Witness ==
    /\ pc = "counters"
    /\ Len(products_data) = 2
    /\ products_data[1].sku = products_data[2].sku
    /\ to_decimal(products_data[1].price) # to_decimal(products_data[2].price)
    /\ Len(discounts_data) = 2
    /\ discounts_data[1].key = discounts_data[2].key
    /\ to_decimal(discounts_data[1].value)
           # to_decimal(discounts_data[2].value)

\* ---- C10 ----
\* C10: total_orders is the number of orders of the input; every order
\* whose summed known-code percentage is greater than 0 adds exactly 1 to
\* orders_with_discount, also when its order total is 0, and no other step
\* changes it after the counters are initialised; 0 <= orders_with_discount
\* <= total_orders.
C10_OrderCounts ==
    /\ [](pc \in {"for", "summed", "discount", "update", "done"} =>
             /\ 0 <= orders_with_discount
             /\ orders_with_discount <= idx + (IF pc = "update" THEN 1 ELSE 0)
             /\ idx + (IF pc = "update" THEN 1 ELSE 0) <= total_orders)
    /\ [](metrics.returned =>
             /\ metrics.total_orders = idx
             /\ metrics.orders_with_discount = orders_with_discount)
    /\ [][/\ (pc = "discount" /\ pc' = "update") =>
                orders_with_discount' = orders_with_discount
                    + (IF OrderPct(order', discounts) > 0 THEN 1 ELSE 0)
          /\ (pc \notin {"discount", "counters"}) =>
                orders_with_discount' = orders_with_discount]_vars

\* an order without items and with a 10% code is counted
C10_Witness ==
    /\ pc = "update"
    /\ idx = 1
    /\ Micro(order_total) = 0
    /\ OrderPct(order, discounts) > 0
    /\ orders_with_discount = 2

====
